---- MODULE Spec2Model ----
(***************************************************************************)
(* Model of connectionPool (conn_pool.go): a buffered channel of idle      *)
(* connections (cp.connections, capacity poolSize) and a counting          *)
(* semaphore channel (cp.createsem, capacity poolSize+poolOverflow), used  *)
(* by concurrent goroutines through GetWithTimeout, Get, Return, Close and *)
(* StartTapFeed.                                                           *)
(*                                                                         *)
(* Every goroutine is a sequential caller; pc[p] is its position inside    *)
(* the call it is executing.  One action is one channel operation, one     *)
(* select, or one call on a collaborator (mkConn, IsHealthy, c.Close,      *)
(* mc.StartTapFeed).  Go channel semantics are modelled as the runtime     *)
(* implements them: a select first polls its cases and picks any ready one *)
(* at random; when none is ready the goroutine parks, and the channel      *)
(* operation of another goroutine (a send, a receive, a close) or the      *)
(* timer completes the parked select directly.                             *)
(***************************************************************************)
EXTENDS Naturals, Integers, Sequences, FiniteSets, TLC

\* ---- bounds of the model -------------------------------------------------
\* newConnectionPool is called with poolSize in 0..MaxPoolSize and
\* poolOverflow in 0..MaxPoolOverflow
MaxPoolSize == 1
MaxPoolOverflow == 1
NumProcs == 2
MaxConns == 3

\* the nil *memcached.Client
NilConn == 0

Procs == 1..NumProcs
Conns == 1..MaxConns

VARIABLES
    poolSize,     \* argument of newConnectionPool
    poolOverflow, \* argument of newConnectionPool
    connections,  \* buffer of cp.connections: sequence of connection ids
    closed,       \* cp.connections has been closed
    createsem,    \* number of values buffered in cp.createsem
    cstate,       \* connection -> "free" (not yet built) | "healthy" |
                  \*               "unhealthy" (open, IsHealthy() false) | "closed"
    feeds,        \* connections detached by StartTapFeed
    held,         \* goroutine -> connections it has checked out
    op,           \* goroutine -> the call it is in ("gwt" also for Get)
    pc,           \* goroutine -> position inside that call
    cur,          \* goroutine -> local connection variable (c, mc)
    tfired,       \* goroutine -> its timer t has a value waiting in t.C
    res,          \* goroutine -> result of its last completed call
    released,     \* goroutine -> values its current call received from createsem
    afterClose,   \* goroutine -> its current call began after a Close returned nil
    fresh         \* only Get() calls so far, at most SemCap of them, no mkConn
                  \* error, and no timer has run out after t.Reset(d)

vars == <<poolSize, poolOverflow, connections, closed, createsem, cstate, feeds, held, op, pc,
          cur, tfired, res, released, afterClose, fresh>>

\* cap(cp.createsem)
SemCap == poolSize + poolOverflow
\* cap(cp.connections)
QueueCap == poolSize

\* what a call reported to its caller: the error, whether a non-nil connection
\* came with it, and the branch of the code that produced it
NoRes == [err |-> "none", hasConn |-> FALSE, how |-> "none"]
Reported(r) == [err |-> r.err, hasConn |-> (r.conn # NilConn), how |-> r.how]

\* newConnectionPool(host, ah, poolSize, poolOverflow)
Init ==
    /\ poolSize \in 0..MaxPoolSize
    /\ poolOverflow \in 0..MaxPoolOverflow
    /\ connections = <<>>
    /\ closed = FALSE
    /\ createsem = 0
    /\ cstate = [c \in Conns |-> "free"]
    /\ feeds = {}
    /\ held = [p \in Procs |-> {}]
    /\ op = [p \in Procs |-> "none"]
    /\ pc = [p \in Procs |-> "idle"]
    /\ cur = [p \in Procs |-> NilConn]
    /\ tfired = [p \in Procs |-> FALSE]
    /\ res = [p \in Procs |-> NoRes]
    /\ released = [p \in Procs |-> 0]
    /\ afterClose = [p \in Procs |-> FALSE]
    /\ fresh = TRUE

\* ---- helpers -------------------------------------------------------------

\* c.IsHealthy(), and whether c has been built and not closed
IsHealthy(c) == cstate[c] = "healthy"
IsOpen(c) == cstate[c] \in {"healthy", "unhealthy"}

FreeConns == {c \in Conns : cstate[c] = "free"}
NextFree == CHOOSE c \in FreeConns : \A d \in FreeConns : c <= d

\* goroutines parked in a select with a receive case on cp.connections
ParkedRecv == {q \in Procs : pc[q] \in {"g_fastpark", "g_slowpark"}}
\* goroutines parked in a select with a send case on cp.createsem
ParkedSemSend == {q \in Procs : pc[q] = "g_slowpark"}

\* a Close call has returned nil: the channel is closed and the drain is over
CloseDone == closed /\ \A q \in Procs : pc[q] \notin {"c_drain", "c_cclose"}

\* ---- channel operations --------------------------------------------------

\* a receive on cp.connections can proceed: a buffered value, or closed
RecvReady == Len(connections) > 0 \/ closed
\* the pair (rv, isopen) such a receive yields
RecvVal == IF Len(connections) > 0 THEN Head(connections) ELSE NilConn
RecvOpen == Len(connections) > 0
\* a send on cp.createsem can proceed: the buffer has room
SemSendReadyOffByOne == createsem <= SemCap
SemSendReady == createsem < SemCap

\* what GetWithTimeout returns for a received pair (rv, isopen)
RecvResultNoCheck(rv, isopen) ==
    [err |-> "none", conn |-> rv, how |-> "reuse"]
RecvResultChecksHealth(rv, isopen) ==
    IF ~isopen
    THEN [err |-> "closedPool", conn |-> NilConn, how |-> "none"]
    ELSE IF rv # NilConn /\ cstate[rv] # "healthy"
    THEN [err |-> "unhealthy", conn |-> NilConn, how |-> "reuse"]
    ELSE [err |-> "none", conn |-> rv, how |-> "reuse"]
RecvResult(rv, isopen) ==
    IF ~isopen
    THEN [err |-> "closedPool", conn |-> NilConn, how |-> "none"]
    ELSE [err |-> "none", conn |-> rv, how |-> "reuse"]

\* the same for a goroutine q whose parked select is completed by close():
\* the result records where q was parked
WokenResult(q) == [RecvResult(NilConn, FALSE) EXCEPT !.how = pc[q]]

TimeoutResult == [err |-> "timeout", conn |-> NilConn, how |-> "none"]

\* ---- completion of a GetWithTimeout --------------------------------------
\* W maps each goroutine whose GetWithTimeout returns in this step to the
\* pair it returns.  Inside StartTapFeed a successful Get continues at the
\* token release; otherwise the call is over.

DonePc(q, r) == IF op[q] = "tap" /\ r.err = "none" THEN "t_release" ELSE "idle"

PcWith(W, base) ==
    [q \in Procs |-> IF q \in DOMAIN W THEN DonePc(q, W[q]) ELSE base[q]]
HeldWith(W, base) ==
    [q \in Procs |-> IF q \in DOMAIN W /\ W[q].conn # NilConn
                     THEN base[q] \cup {W[q].conn} ELSE base[q]]
CurWith(W, base) ==
    [q \in Procs |-> IF q \in DOMAIN W
                     THEN (IF DonePc(q, W[q]) = "t_release" THEN W[q].conn ELSE NilConn)
                     ELSE base[q]]
ResWith(W, base) ==
    [q \in Procs |-> IF q \in DOMAIN W /\ DonePc(q, W[q]) = "idle"
                     THEN Reported(W[q]) ELSE base[q]]
OpWith(W, base) ==
    [q \in Procs |-> IF q \in DOMAIN W /\ DonePc(q, W[q]) = "idle" THEN "none" ELSE base[q]]
TfiredWith(W) ==
    [q \in Procs |-> IF q \in DOMAIN W THEN FALSE ELSE tfired[q]]

Finish(W) ==
    /\ pc' = PcWith(W, pc)
    /\ held' = HeldWith(W, held)
    /\ cur' = CurWith(W, cur)
    /\ res' = ResWith(W, res)
    /\ op' = OpWith(W, op)
    /\ tfired' = TfiredWith(W)

\* ---- GetWithTimeout / Get ------------------------------------------------

\* entry of a call by an idle goroutine
Enter(p, o) ==
    /\ pc[p] = "idle"
    /\ op' = [op EXCEPT ![p] = o]
    /\ res' = [res EXCEPT ![p] = NoRes]
    /\ released' = [released EXCEPT ![p] = 0]

\* calls begun and not yet given back, while only Get() has been called
GetsBegun == Cardinality(UNION {held[q] : q \in Procs})
             + Cardinality({q \in Procs : pc[q] # "idle"})

\* t := time.NewTimer(time.Millisecond), from Get(), GetWithTimeout(d) or
\* StartTapFeed
EnterGet(p, o) ==
    /\ Enter(p, o)
    /\ pc' = [pc EXCEPT ![p] = "g_fast"]
    /\ afterClose' = [afterClose EXCEPT ![p] = CloseDone]
    /\ UNCHANGED <<poolSize, poolOverflow, connections, closed, createsem, cstate,
                   feeds, held, cur, tfired>>

\* Get() is GetWithTimeout(ConnPoolTimeout)
CallGet(p) ==
    /\ EnterGet(p, "gwt")
    /\ fresh' = (fresh /\ GetsBegun < SemCap)

CallGetWithTimeout(p) ==
    /\ EnterGet(p, "gwt")
    /\ fresh' = FALSE

\* the timer of goroutine p delivers on t.C, 1 ms after NewTimer or d after
\* t.Reset(d) (d is the caller's, or ConnPoolTimeout in Get and StartTapFeed):
\* a parked select is completed by it (case <-t.C), otherwise the value waits
\* in the channel
TimerFire(p) ==
    /\ \/ /\ pc[p] = "g_fast" /\ ~tfired[p]
          /\ tfired' = [tfired EXCEPT ![p] = TRUE]
          /\ UNCHANGED <<pc, held, cur, res, op, fresh>>
       \/ /\ pc[p] = "g_slow" /\ ~tfired[p]
          /\ tfired' = [tfired EXCEPT ![p] = TRUE]
          /\ fresh' = FALSE
          /\ UNCHANGED <<pc, held, cur, res, op>>
       \/ /\ pc[p] = "g_fastpark"
          /\ pc' = [pc EXCEPT ![p] = "g_slow"]
          /\ UNCHANGED <<tfired, held, cur, res, op, fresh>>
       \/ /\ pc[p] = "g_slowpark"
          /\ Finish(p :> TimeoutResult)
          /\ fresh' = FALSE
    /\ UNCHANGED <<poolSize, poolOverflow, connections, closed, createsem, cstate,
                   feeds, released, afterClose>>

\* the first select: a receive from cp.connections against the 1 ms timer;
\* case <-t.C resets the timer to d and enters the second select
FastSelectPeek(p) ==
    /\ pc[p] = "g_fast"
    /\ \/ /\ RecvReady
          /\ Finish(p :> RecvResult(RecvVal, RecvOpen))
          /\ connections' = connections
       \/ /\ tfired[p]
          /\ pc' = [pc EXCEPT ![p] = "g_slow"]
          /\ tfired' = [tfired EXCEPT ![p] = FALSE]
          /\ UNCHANGED <<connections, held, cur, res, op>>
       \/ /\ ~RecvReady /\ ~tfired[p]
          /\ pc' = [pc EXCEPT ![p] = "g_fastpark"]
          /\ UNCHANGED <<connections, held, cur, res, op, tfired>>
    /\ UNCHANGED <<poolSize, poolOverflow, closed, createsem, cstate, feeds,
                   released, afterClose, fresh>>
FastSelect(p) ==
    /\ pc[p] = "g_fast"
    /\ \/ /\ RecvReady
          /\ Finish(p :> RecvResult(RecvVal, RecvOpen))
          /\ connections' = IF RecvOpen THEN Tail(connections) ELSE connections
       \/ /\ tfired[p]
          /\ pc' = [pc EXCEPT ![p] = "g_slow"]
          /\ tfired' = [tfired EXCEPT ![p] = FALSE]
          /\ UNCHANGED <<connections, held, cur, res, op>>
       \/ /\ ~RecvReady /\ ~tfired[p]
          /\ pc' = [pc EXCEPT ![p] = "g_fastpark"]
          /\ UNCHANGED <<connections, held, cur, res, op, tfired>>
    /\ UNCHANGED <<poolSize, poolOverflow, closed, createsem, cstate, feeds,
                   released, afterClose, fresh>>

\* the second select: receive, send on cp.createsem, or the full timeout
SlowSelectNoToken(p) ==
    /\ pc[p] = "g_slow"
    /\ \/ /\ RecvReady
          /\ Finish(p :> RecvResult(RecvVal, RecvOpen))
          /\ connections' = IF RecvOpen THEN Tail(connections) ELSE connections
          /\ UNCHANGED createsem
       \/ /\ SemSendReady
          /\ createsem' = createsem
          /\ pc' = [pc EXCEPT ![p] = "g_mk"]
          /\ tfired' = [tfired EXCEPT ![p] = FALSE]
          /\ UNCHANGED <<connections, held, cur, res, op>>
       \/ /\ tfired[p]
          /\ Finish(p :> TimeoutResult)
          /\ UNCHANGED <<connections, createsem>>
       \/ /\ ~RecvReady /\ ~SemSendReady /\ ~tfired[p]
          /\ pc' = [pc EXCEPT ![p] = "g_slowpark"]
          /\ UNCHANGED <<connections, createsem, held, cur, res, op, tfired>>
    /\ UNCHANGED <<poolSize, poolOverflow, closed, cstate, feeds, released,
                   afterClose, fresh>>
SlowSelect(p) ==
    /\ pc[p] = "g_slow"
    /\ \/ /\ RecvReady
          /\ Finish(p :> RecvResult(RecvVal, RecvOpen))
          /\ connections' = IF RecvOpen THEN Tail(connections) ELSE connections
          /\ UNCHANGED createsem
       \/ /\ SemSendReady
          /\ createsem' = createsem + 1
          /\ pc' = [pc EXCEPT ![p] = "g_mk"]
          /\ tfired' = [tfired EXCEPT ![p] = FALSE]
          /\ UNCHANGED <<connections, held, cur, res, op>>
       \/ /\ tfired[p]
          /\ Finish(p :> TimeoutResult)
          /\ UNCHANGED <<connections, createsem>>
       \/ /\ ~RecvReady /\ ~SemSendReady /\ ~tfired[p]
          /\ pc' = [pc EXCEPT ![p] = "g_slowpark"]
          /\ UNCHANGED <<connections, createsem, held, cur, res, op, tfired>>
    /\ UNCHANGED <<poolSize, poolOverflow, closed, cstate, feeds, released,
                   afterClose, fresh>>

\* rv, err := cp.mkConn(cp.host, cp.auth); the factory builds at most
\* MaxConns connections and fails from then on
MkConn(p) ==
    /\ pc[p] = "g_mk"
    /\ \/ /\ FreeConns # {}
          /\ cstate' = [cstate EXCEPT ![NextFree] = "healthy"]
          /\ Finish(p :> [err |-> "none", conn |-> NextFree, how |-> "create"])
          /\ UNCHANGED fresh
       \/ /\ pc' = [pc EXCEPT ![p] = "g_rollback"]
          /\ fresh' = FALSE
          /\ UNCHANGED <<cstate, held, cur, res, op, tfired>>
    /\ UNCHANGED <<poolSize, poolOverflow, connections, closed, createsem, feeds,
                   released, afterClose>>

\* <-cp.createsem by goroutine p, which continues at nextpc.  A goroutine
\* parked on the send case of its select is completed by the receive: its
\* value takes the freed place in the buffer.
SemRecvKeep(p, nextpc) ==
    /\ createsem > 0
    /\ released' = [released EXCEPT ![p] = @ + 1]
    /\ createsem' = createsem
    /\ pc' = [pc EXCEPT ![p] = nextpc]
SemRecv(p, nextpc) ==
    /\ createsem > 0
    /\ released' = [released EXCEPT ![p] = @ + 1]
    /\ IF ParkedSemSend = {}
       THEN /\ createsem' = createsem - 1
            /\ pc' = [pc EXCEPT ![p] = nextpc]
       ELSE /\ createsem' = createsem
            /\ \E q \in ParkedSemSend :
                   pc' = [pc EXCEPT ![p] = nextpc, ![q] = "g_mk"]

\* the end of a call of goroutine p that returns r
Leave(p, r) ==
    /\ res' = [res EXCEPT ![p] = Reported(r)]
    /\ op' = [op EXCEPT ![p] = "none"]

\* mkConn failed: release the create hold and return the error
RollbackKeepsHold(p) ==
    /\ pc[p] = "g_rollback"
    /\ pc' = [pc EXCEPT ![p] = "idle"]
    /\ Leave(p, [err |-> "mkerr", conn |-> NilConn, how |-> "create"])
    /\ UNCHANGED <<poolSize, poolOverflow, connections, closed, createsem, cstate,
                   feeds, held, cur, tfired, released, afterClose, fresh>>
Rollback(p) ==
    /\ pc[p] = "g_rollback"
    /\ SemRecv(p, "idle")
    /\ Leave(p, [err |-> "mkerr", conn |-> NilConn, how |-> "create"])
    /\ UNCHANGED <<poolSize, poolOverflow, connections, closed, cstate, feeds,
                   held, cur, tfired, afterClose, fresh>>

\* ---- Return --------------------------------------------------------------

Drop(p, c) == [held EXCEPT ![p] = @ \ {c}]

\* Return(c) with a connection the caller holds: if c.IsHealthy() { ... } else
CallReturnNoHealthCheck(p) ==
    /\ Enter(p, "return")
    /\ \E c \in held[p] :
          /\ cur' = [cur EXCEPT ![p] = c]
          /\ pc' = [pc EXCEPT ![p] = "r_send"]
    /\ afterClose' = [afterClose EXCEPT ![p] = FALSE]
    /\ fresh' = FALSE
    /\ UNCHANGED <<poolSize, poolOverflow, connections, closed, createsem, cstate,
                   feeds, held, tfired>>
CallReturn(p) ==
    /\ Enter(p, "return")
    /\ \E c \in held[p] :
          /\ cur' = [cur EXCEPT ![p] = c]
          /\ pc' = [pc EXCEPT ![p] = IF IsHealthy(c) THEN "r_send" ELSE "r_unh_rel"]
    /\ afterClose' = [afterClose EXCEPT ![p] = FALSE]
    /\ fresh' = FALSE
    /\ UNCHANGED <<poolSize, poolOverflow, connections, closed, createsem, cstate,
                   feeds, held, tfired>>

\* the buffer of cp.connections has room for a send
QueueRoomOffByOne == Len(connections) <= QueueCap
QueueRoom == Len(connections) < QueueCap

\* select { case cp.connections <- c: default: }
\* A send on the closed channel panics; with a receiver parked on the channel
\* the value goes to it directly; otherwise it is buffered if there is room.
ReturnSend(p) ==
    /\ pc[p] = "r_send"
    /\ IF closed
       THEN /\ pc' = [pc EXCEPT ![p] = "r_panic"]
            /\ UNCHANGED <<connections, held, cur, res, op, tfired>>
       ELSE IF ParkedRecv # {}
       THEN /\ \E q \in ParkedRecv :
                 LET W == q :> RecvResult(cur[p], TRUE) IN
                 /\ pc' = PcWith(W, [pc EXCEPT ![p] = "idle"])
                 /\ held' = HeldWith(W, Drop(p, cur[p]))
                 /\ cur' = CurWith(W, [cur EXCEPT ![p] = NilConn])
                 /\ res' = ResWith(W, [res EXCEPT ![p] = Reported(
                              [err |-> "none", conn |-> NilConn, how |-> "handoff"])])
                 /\ op' = OpWith(W, [op EXCEPT ![p] = "none"])
                 /\ tfired' = TfiredWith(W)
            /\ UNCHANGED connections
       ELSE IF QueueRoom
       THEN /\ connections' = Append(connections, cur[p])
            /\ pc' = [pc EXCEPT ![p] = "idle"]
            /\ held' = Drop(p, cur[p])
            /\ cur' = [cur EXCEPT ![p] = NilConn]
            /\ Leave(p, [err |-> "none", conn |-> NilConn, how |-> "queued"])
            /\ UNCHANGED tfired
       ELSE /\ pc' = [pc EXCEPT ![p] = "r_ovf_rel"]
            /\ UNCHANGED <<connections, held, cur, res, op, tfired>>
    /\ UNCHANGED <<poolSize, poolOverflow, closed, createsem, cstate, feeds,
                   released, afterClose, fresh>>

\* default: <-cp.createsem
ReturnOverflowRelease(p) ==
    /\ pc[p] = "r_ovf_rel"
    /\ SemRecv(p, "r_ovf_close")
    /\ UNCHANGED <<poolSize, poolOverflow, connections, closed, cstate, feeds,
                   held, op, cur, tfired, res, afterClose, fresh>>

\* else: <-cp.createsem
ReturnUnhealthyRelease(p) ==
    /\ pc[p] = "r_unh_rel"
    /\ SemRecv(p, "r_unh_close")
    /\ UNCHANGED <<poolSize, poolOverflow, connections, closed, cstate, feeds,
                   held, op, cur, tfired, res, afterClose, fresh>>

\* c.Close() ends the Return of goroutine p
CloseCur(p, path) ==
    /\ cstate' = [cstate EXCEPT ![cur[p]] = "closed"]
    /\ held' = Drop(p, cur[p])
    /\ pc' = [pc EXCEPT ![p] = "idle"]
    /\ cur' = [cur EXCEPT ![p] = NilConn]
    /\ Leave(p, [err |-> "none", conn |-> NilConn, how |-> path])
    /\ UNCHANGED <<poolSize, poolOverflow, connections, closed, createsem, feeds,
                   tfired, released, afterClose, fresh>>

ReturnOverflowClose(p) ==
    /\ pc[p] = "r_ovf_close"
    /\ CloseCur(p, "overflow")

ReturnUnhealthyClose(p) ==
    /\ pc[p] = "r_unh_close"
    /\ CloseCur(p, "unhealthy")

\* the deferred func: recover() != nil, c.Close()
ReturnRecoverReleases(p) ==
    /\ pc[p] = "r_panic"
    /\ createsem > 0
    /\ createsem' = createsem - 1
    /\ released' = [released EXCEPT ![p] = @ + 1]
    /\ cstate' = [cstate EXCEPT ![cur[p]] = "closed"]
    /\ held' = Drop(p, cur[p])
    /\ pc' = [pc EXCEPT ![p] = "idle"]
    /\ cur' = [cur EXCEPT ![p] = NilConn]
    /\ Leave(p, [err |-> "none", conn |-> NilConn, how |-> "closedpool"])
    /\ UNCHANGED <<poolSize, poolOverflow, connections, closed, feeds, tfired,
                   afterClose, fresh>>
ReturnRecover(p) ==
    /\ pc[p] = "r_panic"
    /\ CloseCur(p, "closedpool")

\* ---- Close ---------------------------------------------------------------

\* close(cp.connections): the second close panics and the deferred recover
\* turns the panic into err; the first one completes every parked receive
CallCloseNoPanic(p) ==
    /\ pc[p] = "idle"
    /\ released' = [released EXCEPT ![p] = 0]
    /\ afterClose' = [afterClose EXCEPT ![p] = FALSE]
    /\ fresh' = FALSE
    /\ LET W == [q \in ParkedRecv |-> WokenResult(q)] IN
       /\ closed' = TRUE
       /\ pc' = PcWith(W, [pc EXCEPT ![p] = "c_drain"])
       /\ held' = HeldWith(W, held)
       /\ cur' = CurWith(W, cur)
       /\ res' = ResWith(W, [res EXCEPT ![p] = NoRes])
       /\ op' = OpWith(W, [op EXCEPT ![p] = "close"])
       /\ tfired' = TfiredWith(W)
    /\ UNCHANGED <<poolSize, poolOverflow, connections, createsem, cstate, feeds>>
CallClose(p) ==
    /\ pc[p] = "idle"
    /\ released' = [released EXCEPT ![p] = 0]
    /\ afterClose' = [afterClose EXCEPT ![p] = FALSE]
    /\ fresh' = FALSE
    /\ IF closed
       THEN /\ res' = [res EXCEPT ![p] = Reported(
                         [err |-> "panic", conn |-> NilConn, how |-> "close"])]
            /\ UNCHANGED <<closed, pc, held, cur, op, tfired>>
       ELSE LET W == [q \in ParkedRecv |-> WokenResult(q)] IN
            /\ closed' = TRUE
            /\ pc' = PcWith(W, [pc EXCEPT ![p] = "c_drain"])
            /\ held' = HeldWith(W, held)
            /\ cur' = CurWith(W, cur)
            /\ res' = ResWith(W, [res EXCEPT ![p] = NoRes])
            /\ op' = OpWith(W, [op EXCEPT ![p] = "close"])
            /\ tfired' = TfiredWith(W)
    /\ UNCHANGED <<poolSize, poolOverflow, connections, createsem, cstate, feeds>>

\* for c := range cp.connections; the loop ends on the closed, empty channel
\* and Close returns nil
CloseDrainNoLoop(p) ==
    /\ pc[p] = "c_drain"
    /\ pc' = [pc EXCEPT ![p] = "idle"]
    /\ Leave(p, [err |-> "none", conn |-> NilConn, how |-> "close"])
    /\ UNCHANGED <<poolSize, poolOverflow, connections, closed, createsem, cstate,
                   feeds, held, cur, tfired, released, afterClose, fresh>>
CloseDrainPeek(p) ==
    /\ pc[p] = "c_drain"
    /\ IF Len(connections) > 0
       THEN /\ cur' = [cur EXCEPT ![p] = Head(connections)]
            /\ pc' = [pc EXCEPT ![p] = "c_cclose"]
            /\ UNCHANGED <<res, op>>
       ELSE /\ pc' = [pc EXCEPT ![p] = "idle"]
            /\ Leave(p, [err |-> "none", conn |-> NilConn, how |-> "close"])
            /\ UNCHANGED cur
    /\ UNCHANGED <<poolSize, poolOverflow, connections, closed, createsem, cstate,
                   feeds, held, tfired, released, afterClose, fresh>>
CloseDrain(p) ==
    /\ pc[p] = "c_drain"
    /\ IF Len(connections) > 0
       THEN /\ cur' = [cur EXCEPT ![p] = Head(connections)]
            /\ connections' = Tail(connections)
            /\ pc' = [pc EXCEPT ![p] = "c_cclose"]
            /\ UNCHANGED <<res, op>>
       ELSE /\ pc' = [pc EXCEPT ![p] = "idle"]
            /\ Leave(p, [err |-> "none", conn |-> NilConn, how |-> "close"])
            /\ UNCHANGED <<connections, cur>>
    /\ UNCHANGED <<poolSize, poolOverflow, closed, createsem, cstate, feeds, held,
                   tfired, released, afterClose, fresh>>

\* c.Close() in the body of the range loop
CloseConnReleases(p) ==
    /\ pc[p] = "c_cclose"
    /\ createsem > 0
    /\ createsem' = createsem - 1
    /\ cstate' = [cstate EXCEPT ![cur[p]] = "closed"]
    /\ cur' = [cur EXCEPT ![p] = NilConn]
    /\ pc' = [pc EXCEPT ![p] = "c_drain"]
    /\ UNCHANGED <<poolSize, poolOverflow, connections, closed, feeds,
                   held, op, tfired, res, released, afterClose, fresh>>
CloseConn(p) ==
    /\ pc[p] = "c_cclose"
    /\ cstate' = [cstate EXCEPT ![cur[p]] = "closed"]
    /\ cur' = [cur EXCEPT ![p] = NilConn]
    /\ pc' = [pc EXCEPT ![p] = "c_drain"]
    /\ UNCHANGED <<poolSize, poolOverflow, connections, closed, createsem, feeds,
                   held, op, tfired, res, released, afterClose, fresh>>

\* ---- StartTapFeed --------------------------------------------------------

\* mc, err := cp.Get()
CallStartTapFeed(p) ==
    /\ EnterGet(p, "tap")
    /\ fresh' = FALSE

\* <-cp.createsem: the connection no longer counts against the pool
TapReleaseKeepsHold(p) ==
    /\ pc[p] = "t_release"
    /\ pc' = [pc EXCEPT ![p] = "t_start"]
    /\ held' = Drop(p, cur[p])
    /\ feeds' = feeds \cup {cur[p]}
    /\ UNCHANGED <<poolSize, poolOverflow, connections, closed, createsem, cstate,
                   op, cur, tfired, res, released, afterClose, fresh>>
TapRelease(p) ==
    /\ pc[p] = "t_release"
    /\ SemRecv(p, "t_start")
    /\ held' = Drop(p, cur[p])
    /\ feeds' = feeds \cup {cur[p]}
    /\ UNCHANGED <<poolSize, poolOverflow, connections, closed, cstate, op, cur,
                   tfired, res, afterClose, fresh>>

\* return mc.StartTapFeed(*args): the connection's own result, passed through
\* (a feed on the connection, or an error and no feed)
TapStartClosesOnError(p) ==
    /\ pc[p] = "t_start"
    /\ \E e \in {"none", "feederr"} :
          /\ Leave(p, [err |-> e, conn |-> IF e = "none" THEN cur[p] ELSE NilConn,
                       how |-> "feed"])
          /\ cstate' = IF e = "none" THEN cstate
                       ELSE [cstate EXCEPT ![cur[p]] = "closed"]
    /\ pc' = [pc EXCEPT ![p] = "idle"]
    /\ cur' = [cur EXCEPT ![p] = NilConn]
    /\ UNCHANGED <<poolSize, poolOverflow, connections, closed, createsem,
                   feeds, held, tfired, released, afterClose, fresh>>
TapStart(p) ==
    /\ pc[p] = "t_start"
    /\ \E e \in {"none", "feederr"} :
          Leave(p, [err |-> e, conn |-> IF e = "none" THEN cur[p] ELSE NilConn,
                    how |-> "feed"])
    /\ pc' = [pc EXCEPT ![p] = "idle"]
    /\ cur' = [cur EXCEPT ![p] = NilConn]
    /\ UNCHANGED <<poolSize, poolOverflow, connections, closed, createsem, cstate,
                   feeds, held, tfired, released, afterClose, fresh>>

\* ---- calls on a nil pool or with a nil connection ------------------------

\* if cp == nil { return nil, errors.New("no pool") }
NilPoolCallNoCheck(p) ==
    /\ pc[p] = "idle"
    /\ res' = [res EXCEPT ![p] = Reported(
                 [err |-> "crash", conn |-> NilConn, how |-> "none"])]
    /\ released' = [released EXCEPT ![p] = 0]
    /\ afterClose' = [afterClose EXCEPT ![p] = FALSE]
    /\ fresh' = FALSE
    /\ UNCHANGED <<poolSize, poolOverflow, connections, closed, createsem, cstate,
                   feeds, held, op, pc, cur, tfired>>
NilPoolCall(p) ==
    /\ pc[p] = "idle"
    /\ res' = [res EXCEPT ![p] = Reported(
                 [err |-> "nopool", conn |-> NilConn, how |-> "none"])]
    /\ released' = [released EXCEPT ![p] = 0]
    /\ afterClose' = [afterClose EXCEPT ![p] = FALSE]
    /\ fresh' = FALSE
    /\ UNCHANGED <<poolSize, poolOverflow, connections, closed, createsem, cstate,
                   feeds, held, op, pc, cur, tfired>>

\* GetWithTimeout(d) or Get() with cp == nil
GetNilPool(p) == NilPoolCall(p)

\* StartTapFeed(args) with cp == nil
TapNilPool(p) == NilPoolCall(p)

\* Return(c) with cp == nil or c == nil: return.  The caller keeps whatever
\* it passed.
ReturnNil(p) ==
    /\ pc[p] = "idle"
    /\ \E cpnil \in BOOLEAN, c \in held[p] \cup {NilConn} :
          /\ cpnil \/ c = NilConn
          /\ res' = [res EXCEPT ![p] = Reported(
                       [err |-> "none", conn |-> NilConn, how |-> "noop"])]
    /\ released' = [released EXCEPT ![p] = 0]
    /\ afterClose' = [afterClose EXCEPT ![p] = FALSE]
    /\ fresh' = FALSE
    /\ UNCHANGED <<poolSize, poolOverflow, connections, closed, createsem, cstate,
                   feeds, held, op, pc, cur, tfired>>

\* ---- environment ---------------------------------------------------------

\* an open connection the pool accounts for stops being healthy
Rot(c) ==
    /\ IsHealthy(c) /\ c \notin feeds
    /\ cstate' = [cstate EXCEPT ![c] = "unhealthy"]
    /\ UNCHANGED <<poolSize, poolOverflow, connections, closed, createsem, feeds, held, op, pc,
                   cur, tfired, res, released, afterClose, fresh>>

\* ---- specification -------------------------------------------------------

Next ==
    \/ \E p \in Procs : CallGet(p)
    \/ \E p \in Procs : CallGetWithTimeout(p)
    \/ \E p \in Procs : TimerFire(p)
    \/ \E p \in Procs : FastSelect(p)
    \/ \E p \in Procs : SlowSelect(p)
    \/ \E p \in Procs : MkConn(p)
    \/ \E p \in Procs : Rollback(p)
    \/ \E p \in Procs : CallReturn(p)
    \/ \E p \in Procs : ReturnSend(p)
    \/ \E p \in Procs : ReturnOverflowRelease(p)
    \/ \E p \in Procs : ReturnUnhealthyRelease(p)
    \/ \E p \in Procs : ReturnOverflowClose(p)
    \/ \E p \in Procs : ReturnUnhealthyClose(p)
    \/ \E p \in Procs : ReturnRecover(p)
    \/ \E p \in Procs : CallClose(p)
    \/ \E p \in Procs : CloseDrain(p)
    \/ \E p \in Procs : CloseConn(p)
    \/ \E p \in Procs : CallStartTapFeed(p)
    \/ \E p \in Procs : TapRelease(p)
    \/ \E p \in Procs : TapStart(p)
    \/ \E p \in Procs : GetNilPool(p)
    \/ \E p \in Procs : TapNilPool(p)
    \/ \E p \in Procs : ReturnNil(p)
    \/ \E c \in Conns : Rot(c)

Spec == Init /\ [][Next]_vars

\* the runtime delivers every timer that stays armed
FairSpec == Spec /\ \A p \in Procs : WF_vars(TimerFire(p))

\* a step of Return by goroutine p
ReturnStep(p) ==
    \/ ReturnSend(p)
    \/ ReturnOverflowRelease(p)
    \/ ReturnUnhealthyRelease(p)
    \/ ReturnOverflowClose(p)
    \/ ReturnUnhealthyClose(p)
    \/ ReturnRecover(p)

\* the scheduler runs every goroutine that is inside Return and can proceed
FairReturnSpec == Spec /\ \A p \in Procs : WF_vars(ReturnStep(p))

TypeOK ==
    /\ poolSize \in 0..MaxPoolSize /\ poolOverflow \in 0..MaxPoolOverflow
    /\ createsem \in 0..SemCap
    /\ Len(connections) <= QueueCap
    /\ \A p \in Procs : cur[p] \in Conns \cup {NilConn}

\* ---- quantities the properties speak of ----------------------------------

\* connections built by the factory, not yet closed, not detached to a feed
Live == {c \in Conns : IsOpen(c) /\ c \notin feeds}
\* connections checked out by callers
CheckedOut == UNION {held[p] : p \in Procs}
\* goroutines that hold a token for a connection they have not built (yet)
Creating == {p \in Procs : pc[p] \in {"g_mk", "g_rollback"}}
\* goroutines inside Return that freed the token of a connection not yet closed
Retiring == {p \in Procs : pc[p] \in {"r_ovf_close", "r_unh_close"}}
Quiescent == \A p \in Procs : pc[p] = "idle"

\* c sits in the buffer of cp.connections
InQueue(c) == \E i \in 1..Len(connections) : connections[i] = c
\* this step moves goroutine p from position at; at a position where p is
\* not parked only p itself moves it
Moves(p, at) == pc[p] = at /\ pc'[p] # pc[p]
\* this step moves goroutine p from position at and no other goroutine
StepOf(p, at) ==
    /\ pc[p] = at
    /\ pc'[p] # pc[p]
    /\ \A q \in Procs \ {p} : pc'[q] = pc[q]
\* this step frees one token slot: the count drops by one, or the slot passes
\* straight to a goroutine parked on the send case of its second select
TokenFreed ==
    \/ createsem' = createsem - 1
    \/ /\ createsem' = createsem
       /\ \E q \in Procs : pc[q] = "g_slowpark" /\ pc'[q] = "g_mk"
\* a select parks only when none of its cases can proceed
ParkedOnlyWhenBlocked ==
    \A p \in Procs :
        /\ pc[p] = "g_fastpark" => ~closed /\ Len(connections) = 0
        /\ pc[p] = "g_slowpark" => ~closed /\ Len(connections) = 0 /\ createsem = SemCap

\* ---- C1 ------------------------------------------------------------------
\* C1: in every reachable state, at the granularity of the single steps of
\* Return, the number of live connections (built, not closed, not detached to
\* a feed) is at most poolSize + poolOverflow.
C1_CapacityInvariant == Cardinality(Live) <= SemCap

\* the excess over the capacity is bounded by the Returns that have freed
\* their token and not yet closed their connection
LiveWithinTokensAndRetiring == Cardinality(Live) <= createsem + Cardinality(Retiring)

\* ---- C2 ------------------------------------------------------------------
\* C2: every Return that destroyed its connection (unhealthy, queue full, or
\* pool already closed) has freed exactly one token slot, and so has every
\* Get whose factory call failed.
C2_Conservation ==
    \A p \in Procs :
        pc[p] = "idle" =>
            /\ res[p].how \in {"unhealthy", "overflow", "closedpool"} => released[p] = 1
            /\ res[p].err = "mkerr" => released[p] = 1

\* ---- C3 ------------------------------------------------------------------
\* C3: while cp.connections has not been closed, the held tokens are the
\* queued connections plus the checked-out ones, plus the calls that took a
\* token and have not built their connection, minus the Returns that freed a
\* token and have not closed their connection; with no call in progress the
\* held tokens are exactly the queued plus the checked-out connections.
C3_TokenAccounting ==
    ~closed =>
        /\ createsem + Cardinality(Retiring)
             = Len(connections) + Cardinality(CheckedOut) + Cardinality(Creating)
        /\ Quiescent => createsem = Len(connections) + Cardinality(CheckedOut)

\* an open pool at rest with one connection queued, one checked out and one
\* detached to a feed
C3_Witness ==
    /\ ~closed /\ Quiescent
    /\ Len(connections) = 1
    /\ Cardinality(CheckedOut) = 1
    /\ feeds # {}
    /\ createsem = 2

\* ---- C4 ------------------------------------------------------------------
\* C4: a GetWithTimeout call that began after Close returned never takes a
\* token, never calls the factory, and returns ClosedPoolError without a
\* connection.
C4_ClosedPoolGet ==
    \A p \in Procs :
        afterClose[p] =>
            /\ pc[p] \notin {"g_mk", "g_rollback"}
            /\ pc[p] = "idle" => res[p].err = "closedPool" /\ ~res[p].hasConn

\* ---- C5 ------------------------------------------------------------------
\* C5: when Close closes the queue while a GetWithTimeout is blocked in its
\* second select (empty queue, all tokens held), that call returns in the
\* same step with ClosedPoolError and no connection.
C5_CloseWakesBlocked ==
    [][\A p \in Procs :
          (/\ pc[p] = "g_slowpark"
           /\ Len(connections) = 0 /\ createsem = SemCap
           /\ ~closed /\ closed')
          => (pc'[p] = "idle" /\ res'[p].err = "closedPool" /\ ~res'[p].hasConn)]_vars

\* a call that Close found parked in the second select, on a pool with capacity
C5_Witness ==
    \E p \in Procs :
        /\ pc[p] = "idle"
        /\ res[p] = [err |-> "closedPool", hasConn |-> FALSE, how |-> "g_slowpark"]
        /\ closed /\ SemCap >= 1 /\ createsem = SemCap

\* ---- C6 ------------------------------------------------------------------
\* open pool, empty queue, every token held
Exhausted == ~closed /\ Len(connections) = 0 /\ createsem = SemCap
GetWaitPcs == {"g_fast", "g_fastpark", "g_slow", "g_slowpark"}

\* with the capacity exhausted, a step of a waiting GetWithTimeout alone
\* keeps it waiting or returns TimeoutError; no token, no connection
C6_ExhaustedStep ==
    \A p \in Procs :
        (Exhausted /\ pc[p] \in GetWaitPcs /\ StepOf(p, pc[p]))
        => /\ \/ pc'[p] \in GetWaitPcs
              \/ /\ pc'[p] = "idle"
                 /\ res'[p] = [err |-> "timeout", hasConn |-> FALSE, how |-> "none"]
           /\ createsem' = createsem
           /\ cstate' = cstate
           /\ held' = held

\* while only Get() has been called on the fresh pool, at most
\* poolSize+poolOverflow times, the factory has not failed and no call's
\* timeout has run out
C6_FreshGets ==
    fresh =>
        /\ \A p \in Procs :
              /\ pc[p] \notin {"g_slowpark", "g_rollback"}
              /\ (pc[p] = "idle" /\ res[p] # NoRes)
                 => res[p] = [err |-> "none", hasConn |-> TRUE, how |-> "create"]
        /\ Cardinality(Conns \ FreeConns) = Cardinality(CheckedOut)
        /\ createsem = Cardinality(CheckedOut) + Cardinality(Creating)

\* a GetWithTimeout blocked in the second select does not stay there
C6_TimesOut ==
    \A p \in Procs : (pc[p] = "g_slowpark") ~> (pc[p] # "g_slowpark")

\* C6: on an open pool with an empty queue and all tokens held, a step of a
\* waiting GetWithTimeout neither takes a token nor builds or returns a
\* connection: it keeps waiting or returns TimeoutError, and a call blocked
\* in the second select does not stay blocked forever (its timer fires
\* unless another call ends the wait).  On a fresh pool, as long as only
\* Get() has been called, at most poolSize+poolOverflow times, the factory
\* has not failed and no timeout has run out, no Get blocks in the second
\* select, every finished Get returned a connection built by its own factory
\* call, and exactly one connection has been built per finished Get.
C6_ExhaustedCapacity ==
    [][C6_ExhaustedStep]_vars /\ []C6_FreshGets /\ C6_TimesOut

\* two connections checked out of a pool of capacity two, and a third call
\* that has timed out
C6_Witness ==
    /\ Exhausted /\ SemCap = 2
    /\ Cardinality(CheckedOut) = 2
    /\ \E p \in Procs : pc[p] = "idle" /\ res[p].err = "timeout"

\* ---- C7 ------------------------------------------------------------------
\* the steps of the default branch of Return: free one token, then close the
\* connection, never queue it
C7_RetireSteps(p) ==
    /\ Moves(p, "r_ovf_rel")
       => (pc'[p] = "r_ovf_close" /\ TokenFreed /\ released'[p] = 1
           /\ connections' = connections /\ cstate' = cstate)
    /\ Moves(p, "r_ovf_close")
       => (cstate'[cur[p]] = "closed" /\ connections' = connections
           /\ createsem' = createsem /\ ~InQueue(cur[p]))

\* a send to a queue that holds poolSize connections takes the default branch
C7_OverflowStep ==
    \A p \in Procs :
        /\ (Moves(p, "r_send") /\ ~closed /\ Len(connections) = QueueCap)
           => (pc'[p] = "r_ovf_rel" /\ connections' = connections
               /\ createsem' = createsem /\ cstate' = cstate)
        /\ C7_RetireSteps(p)

\* C7 (as claimed): on an open pool whose queue holds poolSize connections,
\* Return of a healthy connection takes the default branch, frees exactly one
\* token and closes the connection without queueing it; the queue never holds
\* more than poolSize connections.
C7_OverflowRetirement ==
    [][C7_OverflowStep]_vars /\ [](Len(connections) <= QueueCap)

\* the same when no goroutine is parked on a receive from the queue
C7_OverflowStepNoReceiver ==
    \A p \in Procs :
        /\ (Moves(p, "r_send") /\ ~closed /\ Len(connections) = QueueCap
              /\ ParkedRecv = {})
           => (pc'[p] = "r_ovf_rel" /\ connections' = connections
               /\ createsem' = createsem /\ cstate' = cstate)
        /\ C7_RetireSteps(p)

\* C7 (amended): the same, provided no GetWithTimeout is parked on a receive
\* from the queue when Return sends; with poolSize = 0 a parked Get receives
\* the connection directly and nothing is retired.
C7_OverflowRetirementNoReceiver ==
    [][C7_OverflowStepNoReceiver]_vars /\ [](Len(connections) <= QueueCap)

\* a finished overflow retirement next to a full queue of one connection
C7_Witness ==
    /\ ~closed /\ QueueCap = 1 /\ Len(connections) = QueueCap
    /\ \E p \in Procs : pc[p] = "idle" /\ res[p].how = "overflow"

\* ---- C8 ------------------------------------------------------------------
\* the steps of the else branch of Return
C8_UnhealthyStep ==
    \A p \in Procs :
        /\ (pc[p] = "idle" /\ pc'[p] \in {"r_send", "r_unh_rel"})
           => (pc'[p] = "r_unh_rel" <=> ~IsHealthy(cur'[p]))
        /\ Moves(p, "r_unh_rel")
           => /\ pc'[p] = "r_unh_close"
              /\ TokenFreed /\ released'[p] = 1
              /\ (createsem' < SemCap \/ \E q \in Procs : pc'[q] = "g_mk")
              /\ connections' = connections /\ cstate' = cstate
        /\ Moves(p, "r_unh_close")
           => /\ cstate'[cur[p]] = "closed"
              /\ connections' = connections
              /\ createsem' = createsem

\* C8: Return of a connection whose IsHealthy() is false goes to the else
\* branch, which frees exactly one token (the slot is then free for a send,
\* or has passed to a waiting Get that goes on to build a connection) and
\* closes the connection; the connection is never queued and the queue is
\* left as it was.
C8_UnhealthyRetirement ==
    /\ [][C8_UnhealthyStep]_vars
    /\ [](\A p \in Procs : pc[p] \in {"r_unh_rel", "r_unh_close"} => ~InQueue(cur[p]))

\* capacity one: the unhealthy connection was retired and a Get holds the
\* freed token, about to build a new connection
C8_Witness ==
    /\ SemCap = 1 /\ createsem = 1
    /\ \E p, q \in Procs :
          /\ pc[p] = "idle" /\ res[p].how = "unhealthy"
          /\ pc[q] = "g_mk"

\* ---- C9 ------------------------------------------------------------------
\* the token release of StartTapFeed
C9_DetachStep ==
    \A p \in Procs :
        Moves(p, "t_release")
        => /\ pc'[p] = "t_start"
           /\ TokenFreed /\ released'[p] = 1
           /\ cstate' = cstate
           /\ connections' = connections
           /\ cur[p] \in feeds' /\ cur[p] \notin held'[p]

\* C9: StartTapFeed reaches its token release only with a connection its Get
\* returned; the release frees exactly one token and hands the connection to
\* the feed without queueing or closing it.
C9_Detachment ==
    /\ [][C9_DetachStep]_vars
    /\ [](\A p \in Procs :
             /\ pc[p] = "t_release" => (cur[p] \in held[p] /\ ~InQueue(cur[p]))
             /\ pc[p] = "t_start" => (cur[p] \in feeds /\ ~InQueue(cur[p])))

\* a feed connection still open while poolSize+poolOverflow = 2 further
\* connections are checked out and open
C9_Witness ==
    /\ SemCap = 2 /\ Quiescent
    /\ \E c \in feeds : IsOpen(c)
    /\ Cardinality(CheckedOut) = 2
    /\ \A c \in CheckedOut : IsOpen(c)
    /\ \E p \in Procs : res[p] = [err |-> "none", hasConn |-> TRUE, how |-> "feed"]

\* ---- C10 -----------------------------------------------------------------
\* the failing mkConn call and the release that follows it
C10_RollbackStep ==
    \A p \in Procs :
        /\ (Moves(p, "g_mk") /\ pc'[p] = "g_rollback")
           => (createsem' = createsem /\ connections' = connections
               /\ cstate' = cstate /\ held' = held)
        /\ Moves(p, "g_rollback")
           => /\ pc'[p] = "idle"
              /\ TokenFreed /\ released'[p] = 1
              /\ connections' = connections /\ cstate' = cstate /\ held' = held
              /\ res'[p] = [err |-> "mkerr", hasConn |-> FALSE, how |-> "create"]

\* C10: when the factory fails after the token branch won, the failing step
\* leaves tokens, queue and connections alone, and the next step of the call
\* frees exactly one token, leaves the queue alone and returns the factory's
\* error without a connection.
C10_FactoryFailureRollback == [][C10_RollbackStep]_vars

\* a Get that returned the factory's error on a pool of capacity one, whose
\* only token is free again
C10_Witness ==
    /\ SemCap = 1 /\ createsem = 0 /\ ~closed
    /\ \E p \in Procs : pc[p] = "idle" /\ res[p].err = "mkerr"

\* ---- C11 -----------------------------------------------------------------
\* the steps of Close: close(cp.connections) closes no connection; the range
\* loop takes the head of the queue; c.Close() closes exactly the connection
\* taken, which no caller holds, and leaves every other connection alone
C11_CloseStep ==
    \A p \in Procs :
        /\ (pc[p] = "idle" /\ pc'[p] = "c_drain")
           => (cstate' = cstate /\ connections' = connections)
        /\ (Moves(p, "c_drain") /\ Len(connections) > 0)
           => /\ pc'[p] = "c_cclose"
              /\ cur'[p] = Head(connections)
              /\ connections' = Tail(connections)
              /\ cstate' = cstate
        /\ Moves(p, "c_cclose")
           => /\ cur[p] \notin CheckedOut
              /\ cstate'[cur[p]] = "closed"
              /\ \A c \in Conns \ {cur[p]} : cstate'[c] = cstate[c]
              /\ held' = held

\* once a Close has returned nil the queue is empty and no connection is left
\* open and idle: every open connection is checked out or detached to a feed
C11_Drained ==
    CloseDone =>
        /\ Len(connections) = 0
        /\ \A c \in Conns : (IsOpen(c) /\ c \notin feeds) => c \in CheckedOut

\* C11: when Close has completed, the ready-queue is empty and every
\* connection that was idle in it and was not received by a concurrent Get
\* has been closed; Close closes only connections it received from the queue,
\* never one a caller has checked out.
C11_CloseDrains == [][C11_CloseStep]_vars /\ []C11_Drained

\* two connections were built; the goroutine that holds one of them, still
\* open, queued the other one in its last call; Close has returned nil after
\* closing the queued one, whose token is still held
C11_Witness ==
    /\ CloseDone /\ Quiescent
    /\ Cardinality(Conns \ FreeConns) = 2
    /\ createsem = 2
    /\ \E p, q \in Procs :
          /\ res[p] = [err |-> "none", hasConn |-> FALSE, how |-> "close"]
          /\ res[q].how = "queued"
          /\ \E d \in held[q] : IsOpen(d)
          /\ \E c \in Conns \ held[q] : cstate[c] = "closed"

\* ---- C12 -----------------------------------------------------------------
\* the positions inside Return, and the number of steps Return has left at most
ReturnPcs == {"r_send", "r_ovf_rel", "r_ovf_close", "r_unh_rel", "r_unh_close", "r_panic"}
ReturnRank(at) ==
    IF at = "r_send" THEN 3
    ELSE IF at \in {"r_ovf_rel", "r_unh_rel"} THEN 2
    ELSE IF at \in {"r_ovf_close", "r_unh_close", "r_panic"} THEN 1
    ELSE 0

\* at every position inside Return the goroutine can take its next step; the
\* receive from cp.createsem finds a value
C12_NeverBlocked ==
    \A p \in Procs :
        /\ pc[p] \in ReturnPcs => ENABLED ReturnStep(p)
        /\ pc[p] \in {"r_ovf_rel", "r_unh_rel"} => createsem > 0

\* every step of Return moves it closer to its end, and it ends idle
C12_Advances ==
    \A p \in Procs :
        (pc[p] \in ReturnPcs /\ pc'[p] # pc[p])
        => (pc'[p] \in ReturnPcs \cup {"idle"}
            /\ ReturnRank(pc'[p]) < ReturnRank(pc[p]))

\* C12: a Return of a connection the caller holds never blocks: on an open
\* or closed pool, with the queue full or not, the connection healthy or
\* not, its next step can always be taken (the token release of the
\* unhealthy and overflow branches finds a held token), every step brings it
\* closer to its end, and it completes.
C12_ReturnTerminates ==
    /\ []C12_NeverBlocked
    /\ [][C12_Advances]_vars
    /\ \A p \in Procs : (pc[p] \in ReturnPcs) ~> (pc[p] = "idle")

\* one Return has ended on the overflow branch and, after Close, the other
\* one on the recovered panic of the closed queue
C12_Witness ==
    /\ closed
    /\ \E p, q \in Procs :
          /\ pc[p] = "idle" /\ res[p].how = "closedpool"
          /\ pc[q] = "idle" /\ res[q].how = "overflow"

\* ---- C13 -----------------------------------------------------------------
\* the owners of connection c: the slots of the queue that hold it, the
\* callers that have it checked out, the feed it was detached to, and a Close
\* that has taken it from the queue to close it
QueueSlots(c) == {i \in 1..Len(connections) : connections[i] = c}
Holders(c) == {p \in Procs : c \in held[p]}
Drainers(c) == {p \in Procs : pc[p] = "c_cclose" /\ cur[p] = c}
Owners(c) ==
    Cardinality(QueueSlots(c)) + Cardinality(Holders(c))
    + Cardinality(Drainers(c)) + (IF c \in feeds THEN 1 ELSE 0)

\* a checked-out connection changes state only by its holder's own Return
\* (or by going unhealthy); any other goroutine's step leaves it alone
C13_HolderStep ==
    \A p \in Procs : \A c \in held[p] :
        (cstate'[c] = "closed" /\ cstate[c] # "closed")
        => (pc[p] \in ReturnPcs /\ cur[p] = c /\ pc'[p] = "idle" /\ c \notin held'[p])

\* C13: a connection has at most one owner at a time: it is never held by
\* two callers, never in the queue while a caller or a feed has it, never in
\* two slots of the queue, and a connection a caller holds is not closed
\* except by that caller's own Return, which ends its ownership.
C13_ExclusiveOwnership ==
    /\ [](\A c \in Conns :
             /\ Owners(c) <= 1
             /\ cstate[c] = "closed" => (Holders(c) = {} /\ QueueSlots(c) = {})
             /\ cstate[c] = "free" => Owners(c) = 0)
    /\ [][C13_HolderStep]_vars

\* a Return handed its connection straight to a Get blocked on the queue,
\* which now owns it, while another connection is with a feed
C13_Witness ==
    /\ feeds # {}
    /\ \E p, q \in Procs :
          /\ pc[p] = "idle" /\ res[p].how = "handoff" /\ held[p] = {}
          /\ pc[q] = "idle" /\ res[q] = [err |-> "none", hasConn |-> TRUE, how |-> "reuse"]
          /\ \E c \in held[q] : Owners(c) = 1

\* ---- C14 -----------------------------------------------------------------
\* goroutines inside the range loop of Close
Draining == {p \in Procs : pc[p] \in {"c_drain", "c_cclose"}}

\* a Close on the closed channel ends at once with the recovered error and
\* changes nothing of the pool; the Close that closes the channel goes on to
\* drain it and returns nil
C14_CloseStep ==
    \A p \in Procs :
        /\ (CallClose(p) /\ closed)
           => /\ pc'[p] = "idle"
              /\ res'[p] = [err |-> "panic", hasConn |-> FALSE, how |-> "close"]
              /\ connections' = connections
              /\ createsem' = createsem
              /\ cstate' = cstate /\ held' = held /\ feeds' = feeds
              /\ \A q \in Procs \ {p} : pc'[q] = pc[q] /\ res'[q] = res[q]
        /\ (CallClose(p) /\ ~closed)
           => (closed' /\ pc'[p] = "c_drain" /\ createsem' = createsem)
        /\ (Moves(p, "c_drain") /\ pc'[p] = "idle")
           => res'[p] = [err |-> "none", hasConn |-> FALSE, how |-> "close"]

\* C14: a Close on an already closed pool, after or during the first Close,
\* returns to its caller with an error value and leaves the ready-queue and
\* the token count as they were; only the first Close drains the queue, and
\* it returns no error.
C14_DoubleClose ==
    /\ [][C14_CloseStep]_vars
    /\ [](Cardinality(Draining) <= 1 /\ (Draining # {} => closed))

\* a second Close has returned its error while the first one is closing a
\* connection it took from the queue
C14_Witness ==
    \E p, q \in Procs :
        /\ pc[p] = "c_cclose" /\ IsOpen(cur[p])
        /\ pc[q] = "idle"
        /\ res[q] = [err |-> "panic", hasConn |-> FALSE, how |-> "close"]
        /\ createsem >= 1

\* ---- C15 -----------------------------------------------------------------
\* this step leaves the pool as it is
PoolUntouched ==
    /\ connections' = connections /\ closed' = closed
    /\ createsem' = createsem
    /\ cstate' = cstate /\ feeds' = feeds /\ held' = held

\* the calls with a nil pool or a nil connection, as single steps
C15_NilStep ==
    \A p \in Procs :
        /\ (GetNilPool(p) \/ TapNilPool(p))
           => /\ pc'[p] = "idle"
              /\ res'[p] = [err |-> "nopool", hasConn |-> FALSE, how |-> "none"]
              /\ PoolUntouched
        /\ ReturnNil(p)
           => /\ pc'[p] = "idle"
              /\ res'[p] = [err |-> "none", hasConn |-> FALSE, how |-> "noop"]
              /\ PoolUntouched

\* C15: GetWithTimeout, Get and StartTapFeed on a nil pool return the 'no
\* pool' error and no connection in one step, without waiting; Return on a
\* nil pool or with a nil connection returns in one step; neither changes the
\* ready-queue, the token count or any connection, and such a call is never
\* found waiting.
C15_AbsentPool ==
    /\ [][C15_NilStep]_vars
    /\ [](\A p \in Procs : res[p].err = "nopool" => (pc[p] = "idle" /\ ~res[p].hasConn))

\* next to a queued connection and a checked-out one, one goroutine got the
\* 'no pool' error and the holder of the connection made a no-op Return
C15_Witness ==
    /\ Quiescent /\ ~closed
    /\ Len(connections) = 1 /\ createsem = 2
    /\ \E p, q \in Procs :
          /\ res[p].err = "nopool"
          /\ res[q].how = "noop"
          /\ \E c \in held[q] : IsOpen(c)

\* ---- C16 -----------------------------------------------------------------
\* the send of Return on the closed queue and the recovery that follows it
C16_ClosedReturnStep ==
    \A p \in Procs :
        /\ (Moves(p, "r_send") /\ closed)
           => /\ pc'[p] = "r_panic"
              /\ connections' = connections
              /\ createsem' = createsem
              /\ cstate' = cstate
        /\ Moves(p, "r_panic")
           => /\ pc'[p] = "idle"
              /\ res'[p] = [err |-> "none", hasConn |-> FALSE, how |-> "closedpool"]
              /\ cstate'[cur[p]] = "closed"
              /\ cur[p] \notin held'[p]
              /\ connections' = connections
              /\ createsem' = createsem
              /\ released'[p] = 0

\* C16: Return of a healthy connection to a pool whose queue has been closed
\* ends normally: the send panics, the recovery closes the connection, the
\* connection is not queued, and no step of that Return changes the token
\* count; once Close has drained the queue it stays empty.
C16_ClosedPoolReturn ==
    /\ [][C16_ClosedReturnStep]_vars
    /\ [](\A p \in Procs : pc[p] = "r_panic" => (closed /\ ~InQueue(cur[p])))
    /\ [](CloseDone => Len(connections) = 0)

\* after Close a healthy connection was returned and closed; its token is
\* still held although nothing is queued or checked out
C16_Witness ==
    /\ CloseDone /\ Quiescent
    /\ CheckedOut = {} /\ Len(connections) = 0
    /\ createsem >= 1
    /\ \E p \in Procs : res[p].how = "closedpool" /\ released[p] = 0

\* ---- C17 -----------------------------------------------------------------
\* a receive of GetWithTimeout that yields a connection, from the buffer or
\* straight from a Return, hands that connection to the caller whatever its
\* state, and does not touch it
C17_ReuseStep ==
    /\ \A p \in Procs :
          (/\ pc[p] \in {"g_fast", "g_slow"} /\ pc'[p] # pc[p]
           /\ Len(connections) > 0 /\ connections' = Tail(connections))
          => /\ Head(connections) \in held'[p]
             /\ cstate' = cstate
             /\ pc'[p] \in {"idle", "t_release"}
             /\ pc'[p] = "idle"
                => res'[p] = [err |-> "none", hasConn |-> TRUE, how |-> "reuse"]
    /\ \A q \in Procs :
          (Moves(q, "r_send") /\ ~closed /\ ParkedRecv # {})
          => /\ \E p \in ParkedRecv : cur[q] \in held'[p]
             /\ cstate' = cstate

\* C17: both receive branches of GetWithTimeout return the connection they
\* receive without consulting IsHealthy: the caller gets the head of the
\* queue (or the connection a Return hands over) also when it is no longer
\* healthy, and the connection is left as it is.
C17_NoLivenessCheckOnGet == [][C17_ReuseStep]_vars

\* a caller holds an unhealthy connection that its Get took from the queue
C17_Witness ==
    /\ ~closed
    /\ \E p \in Procs :
          /\ pc[p] = "idle"
          /\ res[p] = [err |-> "none", hasConn |-> TRUE, how |-> "reuse"]
          /\ \E c \in held[p] : cstate[c] = "unhealthy"

\* ---- C18 -----------------------------------------------------------------
\* whenever a caller comes to hold a connection, by any branch of
\* GetWithTimeout, the connection is open and no Close has taken it
C18_HandOutStep ==
    \A p \in Procs : \A c \in Conns :
        (c \notin held[p] /\ c \in held'[p])
        => (cstate'[c] \in {"healthy", "unhealthy"} /\ \A q \in Procs : cur'[q] = c => q = p)

\* a receive of GetWithTimeout on the closed channel: with a connection
\* still buffered it takes the head, which then is out of reach of the range
\* loop of Close; ClosedPoolError comes only from the empty channel
C18_RaceStep ==
    \A p \in Procs :
        (closed /\ pc[p] \in {"g_fast", "g_slow"} /\ pc'[p] \in {"idle", "t_release"}
           /\ ~(pc'[p] = "idle" /\ res'[p].err = "timeout"))
        => IF Len(connections) > 0
           THEN /\ Head(connections) \in held'[p]
                /\ IsOpen(Head(connections))
                /\ connections' = Tail(connections)
                /\ \A i \in 1..Len(connections') :
                      connections'[i] # Head(connections)
           ELSE /\ pc'[p] = "idle"
                /\ res'[p].err = "closedPool" /\ ~res'[p].hasConn
                /\ held' = held

\* C18: GetWithTimeout never returns a connection that Return or Close has
\* closed: a connection is open when a caller receives it and no connection
\* a caller holds is closed or in the hands of Close; a receive that races
\* with the drain of Close yields a buffered connection, which Close then
\* cannot reach, or ClosedPoolError.
C18_NoClosedHandOut ==
    /\ [][C18_HandOutStep /\ C18_RaceStep]_vars
    /\ [](\A c \in CheckedOut : cstate[c] # "closed" /\ Drainers(c) = {})
    /\ [](\A i \in 1..Len(connections) : IsOpen(connections[i]))

\* the queue has been closed and Close is still in its loop; a caller holds
\* an open connection that its Get took from the queue, next to a closed one
C18_Witness ==
    /\ closed
    /\ \E p, q \in Procs :
          /\ pc[p] = "c_drain"
          /\ pc[q] = "idle"
          /\ res[q] = [err |-> "none", hasConn |-> TRUE, how |-> "reuse"]
          /\ \E c \in held[q] : IsOpen(c)
          /\ \E c \in Conns : cstate[c] = "closed"

\* ---- C19 -----------------------------------------------------------------
\* no step of Close sends to or receives from cp.createsem; the step that
\* closes a drained connection destroys an open connection whose token
\* stays held
C19_CloseTokenStep ==
    \A p \in Procs :
        /\ CallClose(p) => (createsem' = createsem /\ feeds' = feeds /\ held' = held)
        /\ Moves(p, "c_drain")
           => (createsem' = createsem /\ released'[p] = 0
               /\ feeds' = feeds /\ held' = held /\ cstate' = cstate)
        /\ Moves(p, "c_cclose")
           => /\ createsem' = createsem /\ released'[p] = 0
              /\ feeds' = feeds /\ held' = held
              /\ IsOpen(cur[p]) /\ cstate'[cur[p]] = "closed"
              /\ createsem >= 1

\* C19: Close neither takes nor frees a token: each of its steps leaves the
\* token count as it is and changes only the queue and the connections it
\* drains, so the token of every idle connection that Close closes stays
\* held.
C19_CloseKeepsTokens ==
    /\ [][C19_CloseTokenStep]_vars
    /\ [](createsem >= Len(connections) + Cardinality({p \in Procs : pc[p] = "c_cclose"}))

\* the only connection ever built was queued and then closed by Close; its
\* token is still held on a pool with nothing left to hold it for
C19_Witness ==
    /\ CloseDone /\ Quiescent
    /\ Cardinality(Conns \ FreeConns) = 1
    /\ \A c \in Conns \ FreeConns : cstate[c] = "closed"
    /\ createsem = 1
    /\ \E p, q \in Procs :
          /\ res[p] = [err |-> "none", hasConn |-> FALSE, how |-> "close"]
          /\ res[q].how = "queued"

\* ---- C20 -----------------------------------------------------------------
\* the step of StartTapFeed in which mc.StartTapFeed fails
C20_FeedFailStep ==
    \A p \in Procs :
        (Moves(p, "t_start") /\ res'[p].err = "feederr")
        => /\ pc'[p] = "idle"
           /\ res'[p] = [err |-> "feederr", hasConn |-> FALSE, how |-> "feed"]
           /\ released[p] = 1 /\ released'[p] = 1
           /\ createsem' = createsem
           /\ connections' = connections
           /\ cstate' = cstate
           /\ IsOpen(cur[p])
           /\ cur[p] \in feeds' /\ cur[p] \notin CheckedOut'

\* C20: when mc.StartTapFeed fails, StartTapFeed returns that error; its
\* token was released before the attempt and is not taken back, and the
\* connection is neither closed nor queued: it stays open and detached, held
\* by no caller and by no slot of the queue.
C20_FeedStartFailure ==
    /\ [][C20_FeedFailStep]_vars
    /\ [](\A c \in feeds : IsOpen(c) /\ ~InQueue(c) /\ c \notin CheckedOut)

\* StartTapFeed has failed on a pool with capacity: no token is held, nothing
\* is queued or checked out, and the connection it acquired is still open
C20_Witness ==
    /\ Quiescent /\ SemCap >= 1
    /\ createsem = 0 /\ Len(connections) = 0 /\ CheckedOut = {}
    /\ \E c \in feeds : IsOpen(c)
    /\ \E p \in Procs : res[p] = [err |-> "feederr", hasConn |-> FALSE, how |-> "feed"]

====
